---- MODULE Spec2Model ----
(***************************************************************************)
(* Model of the Mia Notion API (src/main.py): six hubs (tasks, movies,     *)
(* books, quotes, notes, investments), each with a create, a list and a    *)
(* partial-update handler in front of the Notion store client.             *)
(*                                                                         *)
(* Python values are tagged records, so that None, "", 0, False, {} and [] *)
(* stay distinct and truthiness (`if x:`) differs from `x is not None`.    *)
(* A dict is a sequence of key/value pairs in insertion order, as          *)
(* list(d.keys()) observes it.  A raised exception is a tagged value too.  *)
(***************************************************************************)
EXTENDS Integers, Sequences, FiniteSets, TLC

VARIABLES dbid, req, calls, resp, fn, arg, out

vars == <<dbid, req, calls, resp, fn, arg, out>>

(***************************************************************************)
(* Bounds                                                                  *)
(***************************************************************************)
MaxSpans == 2      \* spans in a title / rich_text payload
MaxResults == 1    \* pages in one query reply
MaxPresent == 3    \* optional fields given in one request body to a handler

(***************************************************************************)
(* Python values                                                           *)
(***************************************************************************)
None == [t |-> "none"]
Str(s) == [t |-> "str", s |-> s]
Num(n) == [t |-> "num", n |-> n]
Bool(b) == [t |-> "bool", b |-> b]
Dict(d) == [t |-> "dict", d |-> d]
List(l) == [t |-> "list", l |-> l]
Raise(e) == [t |-> "raise", e |-> e]
KV(k, v) == [k |-> k, v |-> v]

IsRaise(x) == x.t = "raise"

\* Python truth value of x (`if x:` / `not x`)
Truthy(x) ==
  CASE x.t = "none" -> FALSE
    [] x.t = "str" -> x.s # ""
    [] x.t = "num" -> x.n # 0
    [] x.t = "bool" -> x.b
    [] x.t = "dict" -> Len(x.d) > 0
    [] x.t = "list" -> Len(x.l) > 0

HasKey(d, k) == \E i \in 1..Len(d) : d[i].k = k

\* d.get(k, default) on the pair sequence d
DictGet(d, k, default) ==
  IF HasKey(d, k) THEN d[CHOOSE i \in 1..Len(d) : d[i].k = k].v ELSE default

\* list(d.keys())
Keys(d) == [i \in 1..Len(d) |-> d[i].k]

\* x.get(k, default) on any value: only a dict has .get; an exception raised
\* while computing x propagates
PyGet(x, k, default) ==
  IF x.t = "raise" THEN x
  ELSE IF x.t = "dict" THEN DictGet(x.d, k, default)
  ELSE Raise("AttributeError")

(***************************************************************************)
(* Field decoders                                                          *)
(***************************************************************************)
RECURSIVE ConcatStr(_)
ConcatStr(l) == IF l = <<>> THEN "" ELSE Head(l).s \o ConcatStr(Tail(l))

\* "".join(part.get("plain_text", "") for part in x)
JoinPlainText(x) ==
  CASE x.t = "list" ->
         LET items == [i \in 1..Len(x.l) |-> PyGet(x.l[i], "plain_text", Str(""))]
         IN IF \E i \in 1..Len(items) : IsRaise(items[i]) THEN Raise("AttributeError")
            ELSE IF \E i \in 1..Len(items) : items[i].t # "str" THEN Raise("TypeError")
            ELSE Str(ConcatStr(items))
    [] x.t \in {"dict", "str"} -> Raise("AttributeError")
    [] OTHER -> Raise("TypeError")

\* mutant: `"".join(...) or None`, an empty concatenation decoded as None
_extract_title_EmptyIsNone(prop) ==
  LET title == PyGet(prop, "title", None)
  IN IF IsRaise(title) THEN title
     ELSE IF ~Truthy(title) THEN None
     ELSE IF JoinPlainText(title) = Str("") THEN None
     ELSE JoinPlainText(title)

_extract_title(prop) ==
  LET title == PyGet(prop, "title", None)
  IN IF IsRaise(title) THEN title
     ELSE IF ~Truthy(title) THEN None
     ELSE JoinPlainText(title)

_extract_rich_text(prop) ==
  LET rt == PyGet(prop, "rich_text", None)
  IN IF IsRaise(rt) THEN rt
     ELSE IF ~Truthy(rt) THEN None
     ELSE JoinPlainText(rt)

_extract_select_name(prop) ==
  LET sel == PyGet(prop, "select", None)
  IN IF IsRaise(sel) THEN sel
     ELSE IF ~Truthy(sel) THEN None
     ELSE PyGet(sel, "name", None)

_extract_multi_select_names(prop) ==
  LET ms == PyGet(prop, "multi_select", None)
  IN IF IsRaise(ms) THEN ms
     ELSE IF ~Truthy(ms) THEN List(<<>>)
     ELSE CASE ms.t = "list" ->
                 LET names == [i \in 1..Len(ms.l) |-> PyGet(ms.l[i], "name", None)]
                 IN IF \E i \in 1..Len(names) : IsRaise(names[i])
                    THEN Raise("AttributeError")
                    ELSE List(names)
            [] ms.t \in {"dict", "str"} -> Raise("AttributeError")
            [] OTHER -> Raise("TypeError")

_extract_date_start(prop) ==
  LET date_val == PyGet(prop, "date", None)
  IN IF IsRaise(date_val) THEN date_val
     ELSE IF ~Truthy(date_val) THEN None
     ELSE PyGet(date_val, "start", None)

_extract_number(prop) == PyGet(prop, "number", None)

_extract_checkbox(prop) == PyGet(prop, "checkbox", None)

(***************************************************************************)
(* Property payloads written by the builders                               *)
(***************************************************************************)
\* {"title": [{"text": {"content": v}}]}
TitleProp(v) ==
  Dict(<<KV("title", List(<<Dict(<<KV("text", Dict(<<KV("content", v)>>))>>)>>))>>)

\* {"rich_text": [{"text": {"content": v}}]}
RichTextProp(v) ==
  Dict(<<KV("rich_text", List(<<Dict(<<KV("text", Dict(<<KV("content", v)>>))>>)>>))>>)

\* {"select": {"name": v}}
SelectProp(v) == Dict(<<KV("select", Dict(<<KV("name", v)>>))>>)

\* {"date": {"start": v}}
DateProp(v) == Dict(<<KV("date", Dict(<<KV("start", v)>>))>>)

\* {"number": v}
NumberProp(v) == Dict(<<KV("number", v)>>)

\* {"checkbox": v}
CheckboxProp(v) == Dict(<<KV("checkbox", v)>>)

\* `if cond: props[k] = v` for a key props does not hold yet: the item the
\* assignment appends (the keys of one builder are pairwise distinct)
Put(cond, k, v) == IF cond THEN <<KV(k, v)>> ELSE <<>>

IsNotNone(x) == x.t # "none"

\* A summary model: page.get("id") feeds a required `str` field, which
\* rejects None; a decoder that raised propagates its exception.
Summary(fields) ==
  LET names == DOMAIN fields
      bad == {n \in names : IsRaise(fields[n])}
  IN IF bad # {} THEN Raise((fields[CHOOSE n \in bad : TRUE]).e)
     ELSE IF fields.id.t # "str" THEN Raise("ValidationError")
     ELSE [t |-> "summary", f |-> fields]

\* mutant: props[column] instead of props.get(column, {})
Column_Subscript(props, column) ==
  IF props.t = "dict" /\ ~HasKey(props.d, column) THEN Raise("KeyError")
  ELSE PyGet(props, column, Dict(<<>>))

\* props.get(column, {})
Column(props, column) == PyGet(props, column, Dict(<<>>))

(***************************************************************************)
(* Task hub                                                                *)
(***************************************************************************)
build_notion_task_properties(body) ==
  <<KV("Tarefa", TitleProp(body.task_title))>>
    \o Put(Truthy(body.priority), "Prioridade", SelectProp(body.priority))
    \o Put(Truthy(body.planned_date), "Data Planeada", DateProp(body.planned_date))
    \o Put(Truthy(body.deadline), "Deadline", DateProp(body.deadline))
    \o Put(IsNotNone(body.duration), "Duração Estimada (min)", NumberProp(body.duration))
    \o Put(Truthy(body.energy_required), "Energia Necessária", SelectProp(body.energy_required))
    \o Put(Truthy(body.area), "Área da Vida", SelectProp(body.area))
    \o Put(Truthy(body.notes), "Notas", RichTextProp(body.notes))

page_to_task_summary(page) ==
  LET props == PyGet(page, "properties", Dict(<<>>))
  IN Summary([id |-> PyGet(page, "id", None),
              task_title |-> _extract_title(Column(props, "Tarefa")),
              planned_date |-> _extract_date_start(Column(props, "Data Planeada")),
              deadline |-> _extract_date_start(Column(props, "Deadline")),
              priority |-> _extract_select_name(Column(props, "Prioridade")),
              state |-> _extract_select_name(Column(props, "Estado")),
              area |-> _extract_select_name(Column(props, "Área da Vida")),
              url |-> PyGet(page, "url", None)])

\* the property set update_notion_task assembles from its body
update_notion_task_properties(body) ==
  Put(IsNotNone(body.task_title), "Tarefa", TitleProp(body.task_title))
    \o Put(IsNotNone(body.status), "Estado", SelectProp(body.status))
    \o Put(IsNotNone(body.priority), "Prioridade", SelectProp(body.priority))
    \o Put(IsNotNone(body.planned_date), "Data Planeada", DateProp(body.planned_date))
    \o Put(IsNotNone(body.deadline), "Deadline", DateProp(body.deadline))
    \o Put(IsNotNone(body.duration), "Duração Estimada (min)", NumberProp(body.duration))
    \o Put(IsNotNone(body.energy_required), "Energia Necessária", SelectProp(body.energy_required))
    \o Put(IsNotNone(body.area), "Área da Vida", SelectProp(body.area))
    \o Put(IsNotNone(body.notes), "Notas", RichTextProp(body.notes))

(***************************************************************************)
(* Movies hub                                                              *)
(***************************************************************************)
build_movie_properties(body) ==
  <<KV("Filme", TitleProp(body.title))>>
    \o Put(Truthy(body.category), "Categoria", SelectProp(body.category))
    \o Put(IsNotNone(body.watched), "Já Vi", CheckboxProp(body.watched))
    \o Put(Truthy(body.notes), "Notas", RichTextProp(body.notes))

page_to_movie_summary(page) ==
  LET props == PyGet(page, "properties", Dict(<<>>))
  IN Summary([id |-> PyGet(page, "id", None),
              title |-> _extract_title(Column(props, "Filme")),
              watched |-> _extract_checkbox(Column(props, "Já Vi")),
              category |-> _extract_select_name(Column(props, "Categoria")),
              url |-> PyGet(page, "url", None)])

update_movie_properties(body) ==
  Put(IsNotNone(body.title), "Filme", TitleProp(body.title))
    \o Put(IsNotNone(body.category), "Categoria", SelectProp(body.category))
    \o Put(IsNotNone(body.watched), "Já Vi", CheckboxProp(body.watched))
    \o Put(IsNotNone(body.notes), "Notas", RichTextProp(body.notes))

(***************************************************************************)
(* Books hub                                                               *)
(***************************************************************************)
build_book_properties(body) ==
  <<KV("Título", TitleProp(body.title))>>
    \o Put(Truthy(body.author), "Autor", RichTextProp(body.author))
    \o Put(Truthy(body.status), "Estado de leitura", SelectProp(body.status))
    \o Put(IsNotNone(body.favorite), "Favorito", CheckboxProp(body.favorite))
    \o Put(Truthy(body.notes), "Notas", RichTextProp(body.notes))

page_to_book_summary(page) ==
  LET props == PyGet(page, "properties", Dict(<<>>))
  IN Summary([id |-> PyGet(page, "id", None),
              title |-> _extract_title(Column(props, "Título")),
              author |-> _extract_rich_text(Column(props, "Autor")),
              status |-> _extract_select_name(Column(props, "Estado de leitura")),
              favorite |-> _extract_checkbox(Column(props, "Favorito")),
              url |-> PyGet(page, "url", None)])

update_book_properties(body) ==
  Put(IsNotNone(body.title), "Título", TitleProp(body.title))
    \o Put(IsNotNone(body.author), "Autor", RichTextProp(body.author))
    \o Put(IsNotNone(body.status), "Estado de leitura", SelectProp(body.status))
    \o Put(IsNotNone(body.favorite), "Favorito", CheckboxProp(body.favorite))
    \o Put(IsNotNone(body.notes), "Notas", RichTextProp(body.notes))

(***************************************************************************)
(* Quotes hub                                                              *)
(***************************************************************************)
build_quote_properties(body) ==
  <<KV("Texto", TitleProp(body.text))>>
    \o Put(Truthy(body.author), "Autor", RichTextProp(body.author))
    \o Put(Truthy(body.source), "Fonte", RichTextProp(body.source))
    \o Put(Truthy(body.category), "Categoria", SelectProp(body.category))
    \o Put(IsNotNone(body.favorite), "Favorita", CheckboxProp(body.favorite))
    \o Put(Truthy(body.notes), "Notas", RichTextProp(body.notes))

page_to_quote_summary(page) ==
  LET props == PyGet(page, "properties", Dict(<<>>))
  IN Summary([id |-> PyGet(page, "id", None),
              text |-> _extract_title(Column(props, "Texto")),
              author |-> _extract_rich_text(Column(props, "Autor")),
              category |-> _extract_select_name(Column(props, "Categoria")),
              favorite |-> _extract_checkbox(Column(props, "Favorita")),
              url |-> PyGet(page, "url", None)])

\* mutant: `if body.author:` instead of `if body.author is not None:`
update_quote_properties_Truthy(body) ==
  Put(IsNotNone(body.text), "Texto", TitleProp(body.text))
    \o Put(Truthy(body.author), "Autor", RichTextProp(body.author))
    \o Put(IsNotNone(body.source), "Fonte", RichTextProp(body.source))
    \o Put(IsNotNone(body.category), "Categoria", SelectProp(body.category))
    \o Put(IsNotNone(body.favorite), "Favorita", CheckboxProp(body.favorite))
    \o Put(IsNotNone(body.notes), "Notas", RichTextProp(body.notes))

update_quote_properties(body) ==
  Put(IsNotNone(body.text), "Texto", TitleProp(body.text))
    \o Put(IsNotNone(body.author), "Autor", RichTextProp(body.author))
    \o Put(IsNotNone(body.source), "Fonte", RichTextProp(body.source))
    \o Put(IsNotNone(body.category), "Categoria", SelectProp(body.category))
    \o Put(IsNotNone(body.favorite), "Favorita", CheckboxProp(body.favorite))
    \o Put(IsNotNone(body.notes), "Notas", RichTextProp(body.notes))

(***************************************************************************)
(* Notes hub                                                               *)
(***************************************************************************)
build_note_properties(body) ==
  <<KV("Título / Nota", TitleProp(body.title))>>
    \o Put(Truthy(body.category), "Categoria", SelectProp(body.category))
    \o Put(Truthy(body.emotional_energy), "Energia emocional", SelectProp(body.emotional_energy))
    \o Put(Truthy(body.impact), "Impacto", SelectProp(body.impact))
    \o Put(IsNotNone(body.favorite), "Favorito", CheckboxProp(body.favorite))
    \o Put(Truthy(body.date), "Data", DateProp(body.date))
    \o Put(Truthy(body.details), "Notas detalhadas", RichTextProp(body.details))

page_to_note_summary(page) ==
  LET props == PyGet(page, "properties", Dict(<<>>))
  IN Summary([id |-> PyGet(page, "id", None),
              title |-> _extract_title(Column(props, "Título / Nota")),
              category |-> _extract_select_name(Column(props, "Categoria")),
              emotional_energy |-> _extract_select_name(Column(props, "Energia emocional")),
              impact |-> _extract_select_name(Column(props, "Impacto")),
              favorite |-> _extract_checkbox(Column(props, "Favorito")),
              date |-> _extract_date_start(Column(props, "Data")),
              url |-> PyGet(page, "url", None)])

update_note_properties(body) ==
  Put(IsNotNone(body.title), "Título / Nota", TitleProp(body.title))
    \o Put(IsNotNone(body.category), "Categoria", SelectProp(body.category))
    \o Put(IsNotNone(body.emotional_energy), "Energia emocional", SelectProp(body.emotional_energy))
    \o Put(IsNotNone(body.impact), "Impacto", SelectProp(body.impact))
    \o Put(IsNotNone(body.favorite), "Favorito", CheckboxProp(body.favorite))
    \o Put(IsNotNone(body.date), "Data", DateProp(body.date))
    \o Put(IsNotNone(body.details), "Notas detalhadas", RichTextProp(body.details))

(***************************************************************************)
(* Investments hub                                                         *)
(***************************************************************************)
build_investment_properties_from_create(body) ==
  <<KV("Ativo", TitleProp(body.asset)), KV("Quantidade", NumberProp(body.quantity)), KV("Preço Médio (USD)", NumberProp(body.average_price_usd))>>
    \o Put(IsNotNone(body.last_price_usd), "Último Preço Capturado (USD)", NumberProp(body.last_price_usd))
    \o Put(IsNotNone(body.aportes_totais_usd), "Aportes Totais (USD)", NumberProp(body.aportes_totais_usd))
    \o Put(IsNotNone(body.saldo_atual_usd), "Saldo Atual (USD)", NumberProp(body.saldo_atual_usd))
    \o Put(IsNotNone(body.lucro_usd), "Lucro (USD)", NumberProp(body.lucro_usd))
    \o Put(IsNotNone(body.percent_lucro), "% Lucro", NumberProp(body.percent_lucro))
    \o Put(IsNotNone(body.tipo_ativo), "Tipo de Ativo", SelectProp(body.tipo_ativo))

build_investment_properties_from_update(body) ==
  Put(IsNotNone(body.asset), "Ativo", TitleProp(body.asset))
    \o Put(IsNotNone(body.quantity), "Quantidade", NumberProp(body.quantity))
    \o Put(IsNotNone(body.average_price_usd), "Preço Médio (USD)", NumberProp(body.average_price_usd))
    \o Put(IsNotNone(body.last_price_usd), "Último Preço Capturado (USD)", NumberProp(body.last_price_usd))
    \o Put(IsNotNone(body.aportes_totais_usd), "Aportes Totais (USD)", NumberProp(body.aportes_totais_usd))
    \o Put(IsNotNone(body.saldo_atual_usd), "Saldo Atual (USD)", NumberProp(body.saldo_atual_usd))
    \o Put(IsNotNone(body.lucro_usd), "Lucro (USD)", NumberProp(body.lucro_usd))
    \o Put(IsNotNone(body.percent_lucro), "% Lucro", NumberProp(body.percent_lucro))
    \o Put(IsNotNone(body.tipo_ativo), "Tipo de Ativo", SelectProp(body.tipo_ativo))

page_to_investment_summary(page) ==
  LET props == PyGet(page, "properties", Dict(<<>>))
  IN Summary([id |-> PyGet(page, "id", None),
              asset |-> _extract_title(Column(props, "Ativo")),
              quantity |-> _extract_number(Column(props, "Quantidade")),
              average_price_usd |-> _extract_number(Column(props, "Preço Médio (USD)")),
              last_price_usd |-> _extract_number(Column(props, "Último Preço Capturado (USD)")),
              aportes_totais_usd |-> _extract_number(Column(props, "Aportes Totais (USD)")),
              saldo_atual_usd |-> _extract_number(Column(props, "Saldo Atual (USD)")),
              lucro_usd |-> _extract_number(Column(props, "Lucro (USD)")),
              percent_lucro |-> _extract_number(Column(props, "% Lucro")),
              tipo_ativo |-> _extract_select_name(Column(props, "Tipo de Ativo")),
              url |-> PyGet(page, "url", None)])

\* the create builder of each hub
BuildProperties(hub, body) ==
  CASE hub = "tasks" -> build_notion_task_properties(body)
    [] hub = "movies" -> build_movie_properties(body)
    [] hub = "books" -> build_book_properties(body)
    [] hub = "quotes" -> build_quote_properties(body)
    [] hub = "notes" -> build_note_properties(body)
    [] hub = "investments" -> build_investment_properties_from_create(body)

\* the record summarizer of each hub
Summarize(hub, page) ==
  CASE hub = "tasks" -> page_to_task_summary(page)
    [] hub = "movies" -> page_to_movie_summary(page)
    [] hub = "books" -> page_to_book_summary(page)
    [] hub = "quotes" -> page_to_quote_summary(page)
    [] hub = "notes" -> page_to_note_summary(page)
    [] hub = "investments" -> page_to_investment_summary(page)

(***************************************************************************)
(* Requests, store outcomes and responses                                  *)
(***************************************************************************)
Hubs == {"tasks", "movies", "books", "quotes", "notes", "investments"}
OptionalHubs == Hubs \ {"tasks"}

OptStr == {None, Str(""), Str("Rumi")}
OptDate == {None, Str(""), Str("2024-06-01"), Str("2024-06-01T09:30:00")}
OptNum == {None, Num(0), Num(1)}
OptBool == {None, Bool(FALSE), Bool(TRUE)}
ReqStr == {Str(""), Str("Rumi")}
ReqNum == {Num(0), Num(1)}
PathIds == {"page-1"}
UpstreamMessages == {"timeout", "validation_error"}

CreateNotionTaskRequest ==
  [task_title : ReqStr, priority : OptStr, planned_date : OptDate, deadline : OptDate,
   duration : OptNum, energy_required : OptStr, area : OptStr, notes : OptStr]

UpdateNotionTaskRequest ==
  [task_title : OptStr, status : OptStr, priority : OptStr, planned_date : OptDate,
   deadline : OptDate, duration : OptNum, energy_required : OptStr, area : OptStr,
   notes : OptStr]

CreateMovieRequest == [title : ReqStr, watched : OptBool, category : OptStr, notes : OptStr]

UpdateMovieRequest == [title : OptStr, watched : OptBool, category : OptStr, notes : OptStr]

CreateBookRequest ==
  [title : ReqStr, author : OptStr, status : OptStr, favorite : OptBool, notes : OptStr]

UpdateBookRequest ==
  [title : OptStr, author : OptStr, status : OptStr, favorite : OptBool, notes : OptStr]

CreateQuoteRequest ==
  [text : ReqStr, author : OptStr, source : OptStr, category : OptStr,
   favorite : OptBool, notes : OptStr]

UpdateQuoteRequest ==
  [text : OptStr, author : OptStr, source : OptStr, category : OptStr,
   favorite : OptBool, notes : OptStr]

CreateNoteRequest ==
  [title : ReqStr, category : OptStr, emotional_energy : OptStr, impact : OptStr,
   favorite : OptBool, date : OptDate, details : OptStr]

UpdateNoteRequest ==
  [title : OptStr, category : OptStr, emotional_energy : OptStr, impact : OptStr,
   favorite : OptBool, date : OptDate, details : OptStr]

CreateInvestmentRequest ==
  [asset : ReqStr, quantity : ReqNum, average_price_usd : ReqNum, last_price_usd : OptNum,
   aportes_totais_usd : OptNum, saldo_atual_usd : OptNum, lucro_usd : OptNum,
   percent_lucro : OptNum, tipo_ativo : OptStr]

UpdateInvestmentRequest ==
  [asset : OptStr, quantity : OptNum, average_price_usd : OptNum, last_price_usd : OptNum,
   aportes_totais_usd : OptNum, saldo_atual_usd : OptNum, lucro_usd : OptNum,
   percent_lucro : OptNum, tipo_ativo : OptStr]

\* raise HTTPException(status_code=status, detail=f"{text}: {e}")
HTTPException(status, text, e) ==
  [t |-> "http", status |-> status, detail |-> [text |-> text, e |-> e], body |-> None]

\* a returned response model
Ok(body) == [t |-> "ok", status |-> 200, detail |-> [text |-> "", e |-> ""], body |-> body]

\* an exception that leaves the handler uncaught: the server answers 500
Unhandled(e) ==
  [t |-> "unhandled", status |-> 500, detail |-> [text |-> "Internal Server Error", e |-> e],
   body |-> None]

IsHTTP(x) == x.t = "http"

Returned(s) == IF IsRaise(s) THEN Unhandled(s.e) ELSE Ok(s)

\* one call on the store client, with what the client did
Call(op, target, payload, has_filter, st) ==
  [op |-> op, target |-> target, payload |-> payload, has_filter |-> has_filter,
   result |-> st]

Done(r, cs) == [resp |-> r, calls |-> cs]

\* notion.databases.query(database_id=..., filter=filter_obj) when filter_obj is
\* truthy, notion.databases.query(database_id=...) otherwise
QueryCall(database_id, filter_obj, st) ==
  IF Truthy(filter_obj)
  THEN Call("databases.query", database_id, filter_obj, TRUE, st)
  ELSE Call("databases.query", database_id, None, FALSE, st)

\* the comprehension's value: the first exception raised, or the list
Comprehension(ss) ==
  IF \E i \in 1..Len(ss) : IsRaise(ss[i])
  THEN ss[CHOOSE i \in 1..Len(ss) : IsRaise(ss[i]) /\ \A j \in 1..(i-1) : ~IsRaise(ss[j])]
  ELSE List(ss)

\* [summarize(page) for page in result.get("results", [])]
Summaries(hub, result) ==
  LET results == PyGet(result, "results", List(<<>>))
  IN IF IsRaise(results) THEN results
     ELSE IF results.t # "list" THEN Raise("TypeError")
     ELSE Comprehension([i \in 1..Len(results.l) |-> Summarize(hub, results.l[i])])

\* mutant: several predicates joined by "or"
CombineFilters_Or(filters) ==
  IF Len(filters) > 0
  THEN IF Len(filters) = 1 THEN filters[1] ELSE Dict(<<KV("or", List(filters))>>)
  ELSE None

\* filters -> filter_obj: None, the single predicate, or {"and": filters}
CombineFilters(filters) ==
  IF Len(filters) > 0
  THEN IF Len(filters) = 1 THEN filters[1] ELSE Dict(<<KV("and", List(filters))>>)
  ELSE None

\* {"property": column, kind: {operator: operand}}
Predicate(column, kind, operator, operand) ==
  Dict(<<KV("property", Str(column)), KV(kind, Dict(<<KV(operator, operand)>>))>>)

AppendIf(cond, filters, f) == IF cond THEN Append(filters, f) ELSE filters

(***************************************************************************)
(* Handlers.  `st` is what the store client does if it is called:          *)
(* [ok |-> TRUE, reply |-> r] returns r, [ok |-> FALSE, e |-> m] raises m. *)
(***************************************************************************)
NOTION_TASKS_DATABASE_ID == dbid["tasks"]

create_notion_task(body, st) ==
  LET props == build_notion_task_properties(body)
      call == Call("pages.create", NOTION_TASKS_DATABASE_ID, Dict(props), FALSE, st)
  IN IF ~st.ok
     THEN Done(HTTPException(400, "Erro ao criar tarefa no Notion", st.e), <<call>>)
     ELSE IF st.reply.t # "dict" THEN Done(Unhandled("TypeError"), <<call>>)
     ELSE IF ~HasKey(st.reply.d, "id") THEN Done(Unhandled("KeyError"), <<call>>)
     ELSE Done(Ok([t |-> "summary",
                   f |-> [id |-> DictGet(st.reply.d, "id", None),
                          url |-> DictGet(st.reply.d, "url", None)]]), <<call>>)

\* mutant: the deadline column tested first
query_notion_tasks_DeadlineFirst(planned_date, deadline_date, st) ==
  IF ~Truthy(planned_date) /\ ~Truthy(deadline_date)
  THEN Done(HTTPException(400, "É necessário indicar planned_date ou deadline_date.", ""), <<>>)
  ELSE LET filter_obj == IF Truthy(deadline_date)
                         THEN Predicate("Deadline", "date", "equals", deadline_date)
                         ELSE Predicate("Data Planeada", "date", "equals", planned_date)
           call == Call("databases.query", NOTION_TASKS_DATABASE_ID, filter_obj, TRUE, st)
       IN IF ~st.ok
          THEN Done(HTTPException(500, "Erro ao consultar tarefas", st.e), <<call>>)
          ELSE Done(Returned(Summaries("tasks", st.reply)), <<call>>)

query_notion_tasks(planned_date, deadline_date, st) ==
  IF ~Truthy(planned_date) /\ ~Truthy(deadline_date)
  THEN Done(HTTPException(400, "É necessário indicar planned_date ou deadline_date.", ""), <<>>)
  ELSE LET filter_obj == IF Truthy(planned_date)
                         THEN Predicate("Data Planeada", "date", "equals", planned_date)
                         ELSE Predicate("Deadline", "date", "equals", deadline_date)
           call == Call("databases.query", NOTION_TASKS_DATABASE_ID, filter_obj, TRUE, st)
       IN IF ~st.ok
          THEN Done(HTTPException(500, "Erro ao consultar tarefas", st.e), <<call>>)
          ELSE Done(Returned(Summaries("tasks", st.reply)), <<call>>)

\* mutant: the empty property set is sent to the store like any other
UpdateWith_NoEmptyCheck(taskId, properties, st, text) ==
  LET call == Call("pages.update", Str(taskId), Dict(properties), FALSE, st)
  IN IF ~st.ok
     THEN Done(HTTPException(400, text, st.e), <<call>>)
     ELSE Done(Ok([t |-> "updated", id |-> taskId, updated_fields |-> Keys(properties)]),
               <<call>>)

\* `if not properties` / pages.update / response, shared by the six update handlers
UpdateWith(taskId, properties, st, text) ==
  IF Len(properties) = 0
  THEN Done(HTTPException(400, "Nenhum campo para actualizar.", ""), <<>>)
  ELSE LET call == Call("pages.update", Str(taskId), Dict(properties), FALSE, st)
       IN IF ~st.ok
          THEN Done(HTTPException(400, text, st.e), <<call>>)
          ELSE Done(Ok([t |-> "updated", id |-> taskId, updated_fields |-> Keys(properties)]),
                    <<call>>)

update_notion_task(body, taskId, st) ==
  UpdateWith(taskId, update_notion_task_properties(body), st,
             "Erro ao actualizar tarefa no Notion")

\* mutant: `is None` instead of `not`, so that an empty identifier passes
_movies_db_or_500_IsNone ==
  IF dbid["movies"] = None
  THEN HTTPException(500, "NOTION_MOVIES_DATABASE_ID não está definido.", "")
  ELSE dbid["movies"]

\* ---- movies
_movies_db_or_500 ==
  IF ~Truthy(dbid["movies"])
  THEN HTTPException(500, "NOTION_MOVIES_DATABASE_ID não está definido.", "")
  ELSE dbid["movies"]

\* mutant: a failed create is tried once more before the error is answered
CreateWith_Retry(hub, database_id, props, st, text) ==
  LET call == Call("pages.create", database_id, Dict(props), FALSE, st)
  IN IF ~st.ok
     THEN Done(HTTPException(400, text, st.e), <<call, call>>)
     ELSE Done(Returned(Summarize(hub, st.reply)), <<call>>)

\* try: props = build(body); page = notion.pages.create(...) except: 400;
\* return summarize(page)
CreateWith(hub, database_id, props, st, text) ==
  LET call == Call("pages.create", database_id, Dict(props), FALSE, st)
  IN IF ~st.ok
     THEN Done(HTTPException(400, text, st.e), <<call>>)
     ELSE Done(Returned(Summarize(hub, st.reply)), <<call>>)

\* mutant: a failed query answered 400, as the write paths do
ListWith_400(hub, database_id, filter_obj, st, text) ==
  LET call == QueryCall(database_id, filter_obj, st)
  IN IF ~st.ok
     THEN Done(HTTPException(400, text, st.e), <<call>>)
     ELSE Done(Returned(Summaries(hub, st.reply)), <<call>>)

\* try: query with or without filter except: 500; return summaries
ListWith(hub, database_id, filter_obj, st, text) ==
  LET call == QueryCall(database_id, filter_obj, st)
  IN IF ~st.ok
     THEN Done(HTTPException(500, text, st.e), <<call>>)
     ELSE Done(Returned(Summaries(hub, st.reply)), <<call>>)

create_movie(body, st) ==
  LET database_id == _movies_db_or_500
  IN IF IsHTTP(database_id) THEN Done(database_id, <<>>)
     ELSE CreateWith("movies", database_id, build_movie_properties(body), st,
                     "Erro ao criar filme no Notion")

list_movies(watched, st) ==
  LET database_id == _movies_db_or_500
      filter_obj == IF IsNotNone(watched)
                    THEN Predicate("Já Vi", "checkbox", "equals", watched)
                    ELSE None
  IN IF IsHTTP(database_id) THEN Done(database_id, <<>>)
     ELSE ListWith("movies", database_id, filter_obj, st,
                   "Erro ao consultar filmes")

\* mutant: the empty-update check made before the configuration check
update_movie_EmptyCheckFirst(body, movieId, st) ==
  IF Len(update_movie_properties(body)) = 0
  THEN Done(HTTPException(400, "Nenhum campo para actualizar.", ""), <<>>)
  ELSE IF IsHTTP(_movies_db_or_500) THEN Done(_movies_db_or_500, <<>>)
  ELSE UpdateWith(movieId, update_movie_properties(body), st,
                  "Erro ao actualizar filme no Notion")

update_movie(body, movieId, st) ==
  LET database_id == _movies_db_or_500
  IN IF IsHTTP(database_id) THEN Done(database_id, <<>>)
     ELSE UpdateWith(movieId, update_movie_properties(body), st,
                     "Erro ao actualizar filme no Notion")

\* ---- books
_books_db_or_500 ==
  IF ~Truthy(dbid["books"])
  THEN HTTPException(500, "NOTION_BOOKS_DATABASE_ID não está definido.", "")
  ELSE dbid["books"]

create_book(body, st) ==
  LET database_id == _books_db_or_500
  IN IF IsHTTP(database_id) THEN Done(database_id, <<>>)
     ELSE CreateWith("books", database_id, build_book_properties(body), st,
                     "Erro ao criar livro no Notion")

list_books(read, st) ==
  LET database_id == _books_db_or_500
      filter_obj == IF IsNotNone(read)
                    THEN IF Truthy(read)
                         THEN Predicate("Estado de leitura", "select", "equals", Str("Lido"))
                         ELSE Predicate("Estado de leitura", "select", "does_not_equal", Str("Lido"))
                    ELSE None
  IN IF IsHTTP(database_id) THEN Done(database_id, <<>>)
     ELSE ListWith("books", database_id, filter_obj, st,
                   "Erro ao consultar livros")

update_book(body, bookId, st) ==
  LET database_id == _books_db_or_500
  IN IF IsHTTP(database_id) THEN Done(database_id, <<>>)
     ELSE UpdateWith(bookId, update_book_properties(body), st,
                     "Erro ao actualizar livro no Notion")

\* ---- quotes
_quotes_db_or_500 ==
  IF ~Truthy(dbid["quotes"])
  THEN HTTPException(500, "NOTION_QUOTES_DATABASE_ID não está definido.", "")
  ELSE dbid["quotes"]

create_quote(body, st) ==
  LET database_id == _quotes_db_or_500
  IN IF IsHTTP(database_id) THEN Done(database_id, <<>>)
     ELSE CreateWith("quotes", database_id, build_quote_properties(body), st,
                     "Erro ao criar frase no Notion")

\* the predicate list list_quotes collects
list_quotes_filters(author, favorite) ==
  LET f0 == <<>>
      f1 == AppendIf(Truthy(author), f0, Predicate("Autor", "rich_text", "contains", author))
      f2 == AppendIf(IsNotNone(favorite), f1, Predicate("Favorita", "checkbox", "equals", favorite))
  IN f2

list_quotes(author, favorite, st) ==
  LET database_id == _quotes_db_or_500
      filter_obj == CombineFilters(list_quotes_filters(author, favorite))
  IN IF IsHTTP(database_id) THEN Done(database_id, <<>>)
     ELSE ListWith("quotes", database_id, filter_obj, st,
                   "Erro ao consultar frases")

update_quote(body, quoteId, st) ==
  LET database_id == _quotes_db_or_500
  IN IF IsHTTP(database_id) THEN Done(database_id, <<>>)
     ELSE UpdateWith(quoteId, update_quote_properties(body), st,
                     "Erro ao actualizar frase no Notion")

\* ---- notes
_notes_db_or_500 ==
  IF ~Truthy(dbid["notes"])
  THEN HTTPException(500, "NOTION_NOTES_DATABASE_ID não está definido.", "")
  ELSE dbid["notes"]

create_note(body, st) ==
  LET database_id == _notes_db_or_500
  IN IF IsHTTP(database_id) THEN Done(database_id, <<>>)
     ELSE CreateWith("notes", database_id, build_note_properties(body), st,
                     "Erro ao criar nota no Notion")

list_notes_filters(favorite, category) ==
  LET f0 == <<>>
      f1 == AppendIf(IsNotNone(favorite), f0, Predicate("Favorito", "checkbox", "equals", favorite))
      f2 == AppendIf(Truthy(category), f1, Predicate("Categoria", "select", "equals", category))
  IN f2

list_notes(favorite, category, st) ==
  LET database_id == _notes_db_or_500
      filter_obj == CombineFilters(list_notes_filters(favorite, category))
  IN IF IsHTTP(database_id) THEN Done(database_id, <<>>)
     ELSE ListWith("notes", database_id, filter_obj, st,
                   "Erro ao consultar notas")

update_note(body, noteId, st) ==
  LET database_id == _notes_db_or_500
  IN IF IsHTTP(database_id) THEN Done(database_id, <<>>)
     ELSE UpdateWith(noteId, update_note_properties(body), st,
                     "Erro ao actualizar nota no Notion")

\* ---- investments
_investments_db_or_500 ==
  IF ~Truthy(dbid["investments"])
  THEN HTTPException(500, "NOTION_INVESTMENTS_DATABASE_ID não está definido.", "")
  ELSE dbid["investments"]

\* the summary is built inside the try block: its failure is answered 400 too
\* mutant: the summary built after the try block, as the other hubs do
create_investment_SummaryOutsideTry(body, st) ==
  IF IsHTTP(_investments_db_or_500) THEN Done(_investments_db_or_500, <<>>)
  ELSE CreateWith("investments", _investments_db_or_500,
                  build_investment_properties_from_create(body), st,
                  "Erro ao criar investimento no Notion")

create_investment(body, st) ==
  LET database_id == _investments_db_or_500
      text == "Erro ao criar investimento no Notion"
  IN IF IsHTTP(database_id) THEN Done(database_id, <<>>)
     ELSE LET call == Call("pages.create", database_id,
                           Dict(build_investment_properties_from_create(body)), FALSE, st)
              s == page_to_investment_summary(st.reply)
          IN IF ~st.ok THEN Done(HTTPException(400, text, st.e), <<call>>)
             ELSE IF IsRaise(s) THEN Done(HTTPException(400, text, s.e), <<call>>)
             ELSE Done(Ok(s), <<call>>)

\* mutant: `if only_profitable:` instead of `is True` / `is False`, so that
\* false selects nothing
list_investments_filters_Truthy(asset, only_profitable) ==
  LET f0 == <<>>
      f1 == AppendIf(Truthy(asset), f0, Predicate("Ativo", "title", "contains", asset))
  IN AppendIf(Truthy(only_profitable), f1,
              Predicate("Lucro (USD)", "number", "greater_than", Num(0)))

list_investments_filters(asset, only_profitable) ==
  LET f0 == <<>>
      f1 == AppendIf(Truthy(asset), f0, Predicate("Ativo", "title", "contains", asset))
      f2 == IF only_profitable = Bool(TRUE)
            THEN Append(f1, Predicate("Lucro (USD)", "number", "greater_than", Num(0)))
            ELSE IF only_profitable = Bool(FALSE)
            THEN Append(f1, Predicate("Lucro (USD)", "number", "less_than", Num(0)))
            ELSE f1
  IN f2

list_investments(asset, only_profitable, st) ==
  LET database_id == _investments_db_or_500
      filter_obj == CombineFilters(list_investments_filters(asset, only_profitable))
  IN IF IsHTTP(database_id) THEN Done(database_id, <<>>)
     ELSE ListWith("investments", database_id, filter_obj, st,
                   "Erro ao consultar investimentos")

update_investment(body, investmentId, st) ==
  LET database_id == _investments_db_or_500
  IN IF IsHTTP(database_id) THEN Done(database_id, <<>>)
     ELSE UpdateWith(investmentId, build_investment_properties_from_update(body), st,
                     "Erro ao actualizar investimento no Notion")

(***************************************************************************)
(* What the store holds and answers: records as the store renders them     *)
(***************************************************************************)
StoreTitle(s) == Dict(<<KV("title", List(<<Dict(<<KV("plain_text", Str(s))>>)>>))>>)
StoreRichText(s) == Dict(<<KV("rich_text", List(<<Dict(<<KV("plain_text", Str(s))>>)>>))>>)
StoreSelect(s) == Dict(<<KV("select", Dict(<<KV("name", Str(s))>>))>>)
StoreDate(s) == Dict(<<KV("date", Dict(<<KV("start", Str(s))>>))>>)
StoreNumber(n) == Dict(<<KV("number", Num(n))>>)
StoreCheckbox(b) == Dict(<<KV("checkbox", Bool(b))>>)

Col(field, column, payload, value) ==
  [field |-> field, k |-> column, v |-> payload, value |-> value]

\* per hub: summary field, store column, a stored payload and the value it carries
HubColumns(hub) ==
  CASE hub = "tasks" ->
         <<Col("task_title", "Tarefa", StoreTitle("Ler"), Str("Ler")),
           Col("planned_date", "Data Planeada", StoreDate("2024-06-01"), Str("2024-06-01")),
           Col("deadline", "Deadline", StoreDate("2024-06-02"), Str("2024-06-02")),
           Col("priority", "Prioridade", StoreSelect("Alta"), Str("Alta")),
           Col("state", "Estado", StoreSelect("Inbox"), Str("Inbox")),
           Col("area", "Área da Vida", StoreSelect("Pessoal"), Str("Pessoal"))>>
    [] hub = "movies" ->
         <<Col("title", "Filme", StoreTitle("Ran"), Str("Ran")),
           Col("watched", "Já Vi", StoreCheckbox(FALSE), Bool(FALSE)),
           Col("category", "Categoria", StoreSelect("Drama"), Str("Drama"))>>
    [] hub = "books" ->
         <<Col("title", "Título", StoreTitle("Masnavi"), Str("Masnavi")),
           Col("author", "Autor", StoreRichText("Rumi"), Str("Rumi")),
           Col("status", "Estado de leitura", StoreSelect("Lido"), Str("Lido")),
           Col("favorite", "Favorito", StoreCheckbox(TRUE), Bool(TRUE))>>
    [] hub = "quotes" ->
         <<Col("text", "Texto", StoreTitle("Be"), Str("Be")),
           Col("author", "Autor", StoreRichText("Rumi"), Str("Rumi")),
           Col("category", "Categoria", StoreSelect("Vida"), Str("Vida")),
           Col("favorite", "Favorita", StoreCheckbox(FALSE), Bool(FALSE))>>
    [] hub = "notes" ->
         <<Col("title", "Título / Nota", StoreTitle("Ideia"), Str("Ideia")),
           Col("category", "Categoria", StoreSelect("Vida"), Str("Vida")),
           Col("emotional_energy", "Energia emocional", StoreSelect("Alta"), Str("Alta")),
           Col("impact", "Impacto", StoreSelect("Alto"), Str("Alto")),
           Col("favorite", "Favorito", StoreCheckbox(TRUE), Bool(TRUE)),
           Col("date", "Data", StoreDate("2024-06-01"), Str("2024-06-01"))>>
    [] hub = "investments" ->
         <<Col("asset", "Ativo", StoreTitle("BTC"), Str("BTC")),
           Col("quantity", "Quantidade", StoreNumber(2), Num(2)),
           Col("average_price_usd", "Preço Médio (USD)", StoreNumber(0), Num(0)),
           Col("last_price_usd", "Último Preço Capturado (USD)", StoreNumber(3), Num(3)),
           Col("aportes_totais_usd", "Aportes Totais (USD)", StoreNumber(4), Num(4)),
           Col("saldo_atual_usd", "Saldo Atual (USD)", StoreNumber(5), Num(5)),
           Col("lucro_usd", "Lucro (USD)", StoreNumber(-1), Num(-1)),
           Col("percent_lucro", "% Lucro", StoreNumber(-7), Num(-7)),
           Col("tipo_ativo", "Tipo de Ativo", StoreSelect("Cripto"), Str("Cripto"))>>

HubFields(hub) == {HubColumns(hub)[i].field : i \in 1..Len(HubColumns(hub))}

ColumnOf(hub, field) ==
  HubColumns(hub)[CHOOSE i \in 1..Len(HubColumns(hub)) : HubColumns(hub)[i].field = field]

RECURSIVE SelectPairs(_, _)
SelectPairs(cols, present) ==
  IF cols = <<>> THEN <<>>
  ELSE IF Head(cols).field \in present
       THEN <<KV(Head(cols).k, Head(cols).v)>> \o SelectPairs(Tail(cols), present)
       ELSE SelectPairs(Tail(cols), present)

Page(id, props) ==
  Dict(<<KV("id", Str(id)), KV("url", Str("https://notion.so/" \o id)),
         KV("properties", Dict(props))>>)

\* a stored record of `hub` holding only the columns of the fields in `present`
SubPage(hub, present) == Page("rec-" \o hub, SelectPairs(HubColumns(hub), present))

\* a stored record whose first column is null
BrokenPage(hub) == Page("rec-" \o hub, <<KV(HubColumns(hub)[1].k, None)>>)

ReplyPages(hub) == {SubPage(hub, HubFields(hub)), SubPage(hub, {}), BrokenPage(hub)}

RECURSIVE SeqsUpTo(_, _)
SeqsUpTo(S, n) ==
  IF n = 0 THEN {<<>>}
  ELSE SeqsUpTo(S, n - 1) \cup
       {Append(q, x) : q \in {p \in SeqsUpTo(S, n - 1) : Len(p) = n - 1}, x \in S}

Failures == {[ok |-> FALSE, reply |-> None, e |-> m] : m \in UpstreamMessages}

Returns(r) == [ok |-> TRUE, reply |-> r, e |-> ""]

CreateOutcomes(hub) == Failures \cup {Returns(p) : p \in ReplyPages(hub)}

UpdateOutcomes(hub) == Failures \cup {Returns(SubPage(hub, HubFields(hub)))}

QueryOutcomes(hub) ==
  Failures \cup {Returns(Dict(<<KV("results", List(ps))>>)) :
                   ps \in SeqsUpTo(ReplyPages(hub), MaxResults)}

(***************************************************************************)
(* The service: configuration is read once at start, then requests arrive  *)
(***************************************************************************)
\* os.getenv of the six collection identifiers: the tasks identifier is checked
\* at import, the five optional ones may be unset (None) or empty
DbConfigs ==
  {[h \in Hubs |-> IF h = "tasks" THEN Str("db-tasks")
                   ELSE IF v = "set" THEN Str("db-" \o h)
                   ELSE IF v = "empty" THEN Str("") ELSE None] :
     v \in {"set", "empty", "unset"}}

NoRequest == [op |-> "none", hub |-> "", kind |-> "", body |-> None, id |-> ""]

Idle ==
  /\ req = NoRequest
  /\ resp = Ok(None)
  /\ calls = <<>>

NoApplication ==
  /\ fn = ""
  /\ arg = None
  /\ out = None

Init ==
  /\ dbid \in DbConfigs
  /\ Idle
  /\ NoApplication

\* the bodies of S that give at most MaxPresent fields beyond the `required` ones
Bodies(S, required) ==
  {b \in S : Cardinality({f \in DOMAIN b \ required : b[f] # None}) <= MaxPresent}

\* one request handled from arrival to response; requests are independent, so
\* the next one is taken up once the response of this one has been sent
Handle(op, hub, kind, body, id, r) ==
  /\ req' = [op |-> op, hub |-> hub, kind |-> kind, body |-> body, id |-> id]
  /\ resp' = r.resp
  /\ calls' = r.calls
  /\ UNCHANGED <<dbid, fn, arg, out>>

CreateNotionTask ==
  /\ req = NoRequest
  /\ \E body \in Bodies(CreateNotionTaskRequest, {"task_title"}), st \in CreateOutcomes("tasks") :
      Handle("create_notion_task", "tasks", "create", body, "", create_notion_task(body, st))

\* query parameters the handler does not declare: the framework drops them, the
\* handler never sees them
UndeclaredTaskParams ==
  {[overdue |-> None, date |-> None, scope |-> None],
   [overdue |-> Bool(TRUE), date |-> None, scope |-> None],
   [overdue |-> None, date |-> Str("2024-06-01"), scope |-> Str("both")]}

QueryNotionTasks ==
  /\ req = NoRequest
  /\ \E planned_date \in OptDate, deadline_date \in OptDate,
        extra \in UndeclaredTaskParams, st \in QueryOutcomes("tasks") :
      Handle("query_notion_tasks", "tasks", "list",
             [planned_date |-> planned_date, deadline_date |-> deadline_date,
              overdue |-> extra.overdue, date |-> extra.date, scope |-> extra.scope], "",
             query_notion_tasks(planned_date, deadline_date, st))

UpdateNotionTask ==
  /\ req = NoRequest
  /\ \E body \in Bodies(UpdateNotionTaskRequest, {}), taskId \in PathIds, st \in UpdateOutcomes("tasks") :
      Handle("update_notion_task", "tasks", "update", body, taskId,
             update_notion_task(body, taskId, st))

CreateMovie ==
  /\ req = NoRequest
  /\ \E body \in Bodies(CreateMovieRequest, {"title"}), st \in CreateOutcomes("movies") :
      Handle("create_movie", "movies", "create", body, "", create_movie(body, st))

ListMovies ==
  /\ req = NoRequest
  /\ \E watched \in OptBool, st \in QueryOutcomes("movies") :
      Handle("list_movies", "movies", "list", [watched |-> watched], "",
             list_movies(watched, st))

UpdateMovie ==
  /\ req = NoRequest
  /\ \E body \in Bodies(UpdateMovieRequest, {}), movieId \in PathIds, st \in UpdateOutcomes("movies") :
      Handle("update_movie", "movies", "update", body, movieId,
             update_movie(body, movieId, st))

CreateBook ==
  /\ req = NoRequest
  /\ \E body \in Bodies(CreateBookRequest, {"title"}), st \in CreateOutcomes("books") :
      Handle("create_book", "books", "create", body, "", create_book(body, st))

ListBooks ==
  /\ req = NoRequest
  /\ \E read \in OptBool, st \in QueryOutcomes("books") :
      Handle("list_books", "books", "list", [read |-> read], "", list_books(read, st))

UpdateBook ==
  /\ req = NoRequest
  /\ \E body \in Bodies(UpdateBookRequest, {}), bookId \in PathIds, st \in UpdateOutcomes("books") :
      Handle("update_book", "books", "update", body, bookId, update_book(body, bookId, st))

CreateQuote ==
  /\ req = NoRequest
  /\ \E body \in Bodies(CreateQuoteRequest, {"text"}), st \in CreateOutcomes("quotes") :
      Handle("create_quote", "quotes", "create", body, "", create_quote(body, st))

ListQuotes ==
  /\ req = NoRequest
  /\ \E author \in OptStr, favorite \in OptBool, st \in QueryOutcomes("quotes") :
      Handle("list_quotes", "quotes", "list", [author |-> author, favorite |-> favorite], "",
             list_quotes(author, favorite, st))

UpdateQuote ==
  /\ req = NoRequest
  /\ \E body \in Bodies(UpdateQuoteRequest, {}), quoteId \in PathIds, st \in UpdateOutcomes("quotes") :
      Handle("update_quote", "quotes", "update", body, quoteId,
             update_quote(body, quoteId, st))

CreateNote ==
  /\ req = NoRequest
  /\ \E body \in Bodies(CreateNoteRequest, {"title"}), st \in CreateOutcomes("notes") :
      Handle("create_note", "notes", "create", body, "", create_note(body, st))

ListNotes ==
  /\ req = NoRequest
  /\ \E favorite \in OptBool, category \in OptStr, st \in QueryOutcomes("notes") :
      Handle("list_notes", "notes", "list", [favorite |-> favorite, category |-> category], "",
             list_notes(favorite, category, st))

UpdateNote ==
  /\ req = NoRequest
  /\ \E body \in Bodies(UpdateNoteRequest, {}), noteId \in PathIds, st \in UpdateOutcomes("notes") :
      Handle("update_note", "notes", "update", body, noteId, update_note(body, noteId, st))

CreateInvestment ==
  /\ req = NoRequest
  /\ \E body \in Bodies(CreateInvestmentRequest, {"asset", "quantity", "average_price_usd"}), st \in CreateOutcomes("investments") :
      Handle("create_investment", "investments", "create", body, "",
             create_investment(body, st))

ListInvestments ==
  /\ req = NoRequest
  /\ \E asset \in OptStr, only_profitable \in OptBool, st \in QueryOutcomes("investments") :
      Handle("list_investments", "investments", "list",
             [asset |-> asset, only_profitable |-> only_profitable], "",
             list_investments(asset, only_profitable, st))

UpdateInvestment ==
  /\ req = NoRequest
  /\ \E body \in Bodies(UpdateInvestmentRequest, {}), investmentId \in PathIds,
       st \in UpdateOutcomes("investments") :
      Handle("update_investment", "investments", "update", body, investmentId,
             update_investment(body, investmentId, st))

\* the response leaves; nothing of the request is kept
Respond ==
  /\ req # NoRequest
  /\ req' = NoRequest
  /\ resp' = Ok(None)
  /\ calls' = <<>>
  /\ UNCHANGED <<dbid, fn, arg, out>>

Next ==
  \/ Respond
  \/ CreateNotionTask \/ QueryNotionTasks \/ UpdateNotionTask
  \/ CreateMovie \/ ListMovies \/ UpdateMovie
  \/ CreateBook \/ ListBooks \/ UpdateBook
  \/ CreateQuote \/ ListQuotes \/ UpdateQuote
  \/ CreateNote \/ ListNotes \/ UpdateNote
  \/ CreateInvestment \/ ListInvestments \/ UpdateInvestment

Spec == Init /\ [][Next]_vars

(***************************************************************************)
(* The pure layer on its own: decoders, builders and summarizers applied   *)
(* to inputs drawn from bounded sets.  fn names what was applied, arg its  *)
(* input, out its result.                                                  *)
(***************************************************************************)
Texts == {"", "a", "b"}

\* one span of a title / rich_text list: as the store renders it, as the builders
\* write it, empty, and the shapes that are not a span at all
SpanVals ==
  {Dict(<<KV("plain_text", Str(s))>>) : s \in Texts}
    \cup {Dict(<<KV("text", Dict(<<KV("content", Str("a"))>>))>>), Dict(<<>>),
          Str("a"), None, Dict(<<KV("plain_text", Num(1))>>)}

\* values found under a payload's type key
InnerVals(key) ==
  {None, Str(""), Str("a"), Num(0), Num(1), Bool(FALSE), Bool(TRUE), List(<<>>), Dict(<<>>)}
    \cup {List(l) : l \in SeqsUpTo(SpanVals, MaxSpans)}
    \cup {Dict(<<KV("name", v)>>) : v \in {None, Str(""), Str("a"), Num(1)}}
    \cup {Dict(<<KV("start", v)>>) : v \in {None, Str("2024-06-01"), Num(1)}}
    \cup {List(<<Dict(<<KV("name", Str("a"))>>), x>>) :
            x \in {Dict(<<KV("name", Str("b"))>>), Dict(<<>>), Str("b"), None}}

\* what a column of a fetched record may hold
PropVals(key) ==
  {None, Str("a"), List(<<>>), Dict(<<>>)} \cup {Dict(<<KV(key, v)>>) : v \in InnerVals(key)}

Applied(f, a, o) ==
  /\ fn' = f
  /\ arg' = a
  /\ out' = o
  /\ UNCHANGED <<dbid, req, resp, calls>>

Apply_extract_title ==
  /\ fn = ""
  /\ \E prop \in PropVals("title") : Applied("_extract_title", prop, _extract_title(prop))

Apply_extract_rich_text ==
  /\ fn = ""
  /\ \E prop \in PropVals("rich_text") :
       Applied("_extract_rich_text", prop, _extract_rich_text(prop))

Apply_extract_select_name ==
  /\ fn = ""
  /\ \E prop \in PropVals("select") :
       Applied("_extract_select_name", prop, _extract_select_name(prop))

Apply_extract_multi_select_names ==
  /\ fn = ""
  /\ \E prop \in PropVals("multi_select") :
       Applied("_extract_multi_select_names", prop, _extract_multi_select_names(prop))

Apply_extract_date_start ==
  /\ fn = ""
  /\ \E prop \in PropVals("date") :
       Applied("_extract_date_start", prop, _extract_date_start(prop))

Apply_extract_number ==
  /\ fn = ""
  /\ \E prop \in PropVals("number") : Applied("_extract_number", prop, _extract_number(prop))

Apply_extract_checkbox ==
  /\ fn = ""
  /\ \E prop \in PropVals("checkbox") :
       Applied("_extract_checkbox", prop, _extract_checkbox(prop))

CreateRequests(hub) ==
  CASE hub = "tasks" -> CreateNotionTaskRequest
    [] hub = "movies" -> CreateMovieRequest
    [] hub = "books" -> CreateBookRequest
    [] hub = "quotes" -> CreateQuoteRequest
    [] hub = "notes" -> CreateNoteRequest
    [] hub = "investments" -> CreateInvestmentRequest

\* a create builder applied to a request body
ApplyBuild ==
  /\ fn = ""
  /\ \E hub \in Hubs : \E body \in CreateRequests(hub) :
       Applied("build", [hub |-> hub, body |-> body], Dict(BuildProperties(hub, body)))

\* a summarizer applied to a stored record that lacks some of its columns
ApplySummarize ==
  /\ fn = ""
  /\ \E hub \in Hubs : \E present \in SUBSET HubFields(hub) :
       Applied("summarize", [hub |-> hub, page |-> SubPage(hub, present)],
               Summarize(hub, SubPage(hub, present)))

\* a summarizer applied to the property set the create builder has just produced
ApplyBuildThenSummarize ==
  /\ fn = ""
  /\ \E hub \in Hubs : \E body \in CreateRequests(hub) :
       Applied("build_then_summarize", [hub |-> hub, body |-> body],
               Summarize(hub, Page("new", BuildProperties(hub, body))))

Forget ==
  /\ fn # ""
  /\ fn' = ""
  /\ arg' = None
  /\ out' = None
  /\ UNCHANGED <<dbid, req, resp, calls>>

PureInit ==
  /\ dbid = [h \in Hubs |-> Str("db-" \o h)]
  /\ Idle
  /\ NoApplication

PureNext ==
  \/ Forget
  \/ Apply_extract_title \/ Apply_extract_rich_text \/ Apply_extract_select_name
  \/ Apply_extract_multi_select_names \/ Apply_extract_date_start
  \/ Apply_extract_number \/ Apply_extract_checkbox
  \/ ApplyBuild \/ ApplySummarize \/ ApplyBuildThenSummarize

PureSpec == PureInit /\ [][PureNext]_vars

(***************************************************************************)
(* Request intake of the create routes: the JSON body is parsed into the    *)
(* route's request model before the handler runs.  A field the body does    *)
(* not carry takes the default the model declares; a field declared without *)
(* a default is required, and a body without it (or with null for it) is    *)
(* answered 422 without the handler being called.                           *)
(***************************************************************************)
\* a field the JSON body does not carry
Absent == [t |-> "absent"]

\* the required fields, had quantity and average_price_usd been declared optional
RequiredFields_AssetOnly(hub) ==
  CASE hub = "tasks" -> {"task_title"}
    [] hub \in {"movies", "books", "notes"} -> {"title"}
    [] hub = "quotes" -> {"text"}
    [] hub = "investments" -> {"asset"}

\* the fields the create model of the hub declares without a default
RequiredFields(hub) ==
  CASE hub = "tasks" -> {"task_title"}
    [] hub \in {"movies", "books", "notes"} -> {"title"}
    [] hub = "quotes" -> {"text"}
    [] hub = "investments" -> {"asset", "quantity", "average_price_usd"}

\* mutant: watched declared Optional[bool] = None, as favorite is
FieldDefault_AllNone(hub, field) == None

\* the default the create model of the hub declares for an optional field
FieldDefault(hub, field) ==
  IF hub = "movies" /\ field = "watched" THEN Bool(FALSE) ELSE None

\* the fields a body of the model may leave out: the required ones and the
\* checkbox ones.  Every other field defaults to None, so leaving it out parses
\* exactly as null does, and None stands for both.
OmittableFields(hub) ==
  RequiredFields(hub) \cup
    (CASE hub = "movies" -> {"watched"}
       [] hub \in {"books", "quotes", "notes"} -> {"favorite"}
       [] OTHER -> {})

RawCreateBodies(hub) ==
  LET B == Bodies(CreateRequests(hub), RequiredFields(hub))
  IN B \cup {[b EXCEPT ![f] = Absent] : b \in B, f \in OmittableFields(hub)}
       \cup {[b EXCEPT ![f] = None] : b \in B, f \in RequiredFields(hub)}

\* mutant: validation as if quantity and average_price_usd were optional
Invalid_AssetOnly(hub, raw) ==
  \E f \in RequiredFields_AssetOnly(hub) : raw[f] \in {Absent, None}

\* the body fails the validation of the hub's create model
Invalid(hub, raw) == \E f \in RequiredFields(hub) : raw[f] \in {Absent, None}

\* the request model built from a valid body
ParseCreate(hub, raw) ==
  [f \in DOMAIN raw |-> IF raw[f] = Absent THEN FieldDefault(hub, f) ELSE raw[f]]

\* the framework's answer to a body that fails validation
RequestValidationError ==
  [t |-> "invalid", status |-> 422,
   detail |-> [text |-> "Unprocessable Entity", e |-> "RequestValidationError"],
   body |-> None]

\* the handler's outcome r stands only if the body is valid
Validated(hub, raw, r) == IF Invalid(hub, raw) THEN Done(RequestValidationError, <<>>) ELSE r

PostNotionTask ==
  /\ req = NoRequest
  /\ \E raw \in RawCreateBodies("tasks"), st \in CreateOutcomes("tasks") :
      Handle("create_notion_task", "tasks", "create", raw, "",
             Validated("tasks", raw, create_notion_task(ParseCreate("tasks", raw), st)))

PostMovie ==
  /\ req = NoRequest
  /\ \E raw \in RawCreateBodies("movies"), st \in CreateOutcomes("movies") :
      Handle("create_movie", "movies", "create", raw, "",
             Validated("movies", raw, create_movie(ParseCreate("movies", raw), st)))

PostBook ==
  /\ req = NoRequest
  /\ \E raw \in RawCreateBodies("books"), st \in CreateOutcomes("books") :
      Handle("create_book", "books", "create", raw, "",
             Validated("books", raw, create_book(ParseCreate("books", raw), st)))

PostQuote ==
  /\ req = NoRequest
  /\ \E raw \in RawCreateBodies("quotes"), st \in CreateOutcomes("quotes") :
      Handle("create_quote", "quotes", "create", raw, "",
             Validated("quotes", raw, create_quote(ParseCreate("quotes", raw), st)))

PostNote ==
  /\ req = NoRequest
  /\ \E raw \in RawCreateBodies("notes"), st \in CreateOutcomes("notes") :
      Handle("create_note", "notes", "create", raw, "",
             Validated("notes", raw, create_note(ParseCreate("notes", raw), st)))

PostInvestment ==
  /\ req = NoRequest
  /\ \E raw \in RawCreateBodies("investments"), st \in CreateOutcomes("investments") :
      Handle("create_investment", "investments", "create", raw, "",
             Validated("investments", raw,
                       create_investment(ParseCreate("investments", raw), st)))

IntakeNext ==
  \/ Respond
  \/ PostNotionTask \/ PostMovie \/ PostBook \/ PostQuote \/ PostNote \/ PostInvestment

IntakeSpec == Init /\ [][IntakeNext]_vars

(***************************************************************************)
(* Schema tables: request field -> store column, in the order the code     *)
(* tests the fields                                                        *)
(***************************************************************************)
FC(field, column, required) == [field |-> field, column |-> column, required |-> required]

CreateColumns(hub) ==
  CASE hub = "tasks" ->
         <<FC("task_title", "Tarefa", TRUE), FC("priority", "Prioridade", FALSE),
           FC("planned_date", "Data Planeada", FALSE), FC("deadline", "Deadline", FALSE),
           FC("duration", "Duração Estimada (min)", FALSE),
           FC("energy_required", "Energia Necessária", FALSE),
           FC("area", "Área da Vida", FALSE), FC("notes", "Notas", FALSE)>>
    [] hub = "movies" ->
         <<FC("title", "Filme", TRUE), FC("category", "Categoria", FALSE),
           FC("watched", "Já Vi", FALSE), FC("notes", "Notas", FALSE)>>
    [] hub = "books" ->
         <<FC("title", "Título", TRUE), FC("author", "Autor", FALSE),
           FC("status", "Estado de leitura", FALSE), FC("favorite", "Favorito", FALSE),
           FC("notes", "Notas", FALSE)>>
    [] hub = "quotes" ->
         <<FC("text", "Texto", TRUE), FC("author", "Autor", FALSE),
           FC("source", "Fonte", FALSE), FC("category", "Categoria", FALSE),
           FC("favorite", "Favorita", FALSE), FC("notes", "Notas", FALSE)>>
    [] hub = "notes" ->
         <<FC("title", "Título / Nota", TRUE), FC("category", "Categoria", FALSE),
           FC("emotional_energy", "Energia emocional", FALSE),
           FC("impact", "Impacto", FALSE), FC("favorite", "Favorito", FALSE),
           FC("date", "Data", FALSE), FC("details", "Notas detalhadas", FALSE)>>
    [] hub = "investments" ->
         <<FC("asset", "Ativo", TRUE), FC("quantity", "Quantidade", TRUE),
           FC("average_price_usd", "Preço Médio (USD)", TRUE),
           FC("last_price_usd", "Último Preço Capturado (USD)", FALSE),
           FC("aportes_totais_usd", "Aportes Totais (USD)", FALSE),
           FC("saldo_atual_usd", "Saldo Atual (USD)", FALSE),
           FC("lucro_usd", "Lucro (USD)", FALSE), FC("percent_lucro", "% Lucro", FALSE),
           FC("tipo_ativo", "Tipo de Ativo", FALSE)>>

UpdateColumns(hub) ==
  CASE hub = "tasks" ->
         <<FC("task_title", "Tarefa", FALSE), FC("status", "Estado", FALSE),
           FC("priority", "Prioridade", FALSE), FC("planned_date", "Data Planeada", FALSE),
           FC("deadline", "Deadline", FALSE), FC("duration", "Duração Estimada (min)", FALSE),
           FC("energy_required", "Energia Necessária", FALSE),
           FC("area", "Área da Vida", FALSE), FC("notes", "Notas", FALSE)>>
    [] hub = "movies" ->
         <<FC("title", "Filme", FALSE), FC("category", "Categoria", FALSE),
           FC("watched", "Já Vi", FALSE), FC("notes", "Notas", FALSE)>>
    [] hub = "books" ->
         <<FC("title", "Título", FALSE), FC("author", "Autor", FALSE),
           FC("status", "Estado de leitura", FALSE), FC("favorite", "Favorito", FALSE),
           FC("notes", "Notas", FALSE)>>
    [] hub = "quotes" ->
         <<FC("text", "Texto", FALSE), FC("author", "Autor", FALSE),
           FC("source", "Fonte", FALSE), FC("category", "Categoria", FALSE),
           FC("favorite", "Favorita", FALSE), FC("notes", "Notas", FALSE)>>
    [] hub = "notes" ->
         <<FC("title", "Título / Nota", FALSE), FC("category", "Categoria", FALSE),
           FC("emotional_energy", "Energia emocional", FALSE),
           FC("impact", "Impacto", FALSE), FC("favorite", "Favorito", FALSE),
           FC("date", "Data", FALSE), FC("details", "Notas detalhadas", FALSE)>>
    [] hub = "investments" ->
         <<FC("asset", "Ativo", FALSE), FC("quantity", "Quantidade", FALSE),
           FC("average_price_usd", "Preço Médio (USD)", FALSE),
           FC("last_price_usd", "Último Preço Capturado (USD)", FALSE),
           FC("aportes_totais_usd", "Aportes Totais (USD)", FALSE),
           FC("saldo_atual_usd", "Saldo Atual (USD)", FALSE),
           FC("lucro_usd", "Lucro (USD)", FALSE), FC("percent_lucro", "% Lucro", FALSE),
           FC("tipo_ativo", "Tipo de Ativo", FALSE)>>

(***************************************************************************)
(* Properties                                                              *)
(***************************************************************************)
AllNone(body) == \A f \in DOMAIN body : body[f] = None

NoFieldsError(r) ==
  r.t = "http" /\ r.status = 400 /\ r.detail.text = "Nenhum campo para actualizar."

ConfigError(r) == r.t = "http" /\ r.status = 500 /\ r.detail.e = ""

Configured(hub) == hub = "tasks" \/ Truthy(dbid[hub])

\* the store columns of the fields of `body` that are not None, in schema order
RECURSIVE PresentColumns(_, _)
PresentColumns(cols, body) ==
  IF cols = <<>> THEN <<>>
  ELSE IF body[Head(cols).field] # None
       THEN <<Head(cols).column>> \o PresentColumns(Tail(cols), body)
       ELSE PresentColumns(Tail(cols), body)

NoDuplicates(q) == \A i, j \in 1..Len(q) : q[i] = q[j] => i = j

\* C1: every create builder emits the key of an optional field if and only if
\* the field's value is not None (so 0, "" and false are still encoded).
C1_KeyIffNotNone ==
  fn = "build" =>
    \A i \in 1..Len(CreateColumns(arg.hub)) :
      LET c == CreateColumns(arg.hub)[i]
      IN ~c.required => (HasKey(out.d, c.column) <=> arg.body[c.field] # None)

\* C2 as stated: an update whose fields are all None ends with the
\* no-fields-to-update error (400) and no store call, on every hub; an update with
\* a field that is not None never ends with that error.
C2_AllNoneIs400 ==
  req.kind = "update" =>
    /\ AllNone(req.body) => NoFieldsError(resp) /\ calls = <<>>
    /\ ~AllNone(req.body) => ~NoFieldsError(resp)

\* C2 amended: an all-None update never reaches the store; it ends with the
\* no-fields-to-update error (400) when the hub's collection identifier is set
\* (always, for tasks) and with the configuration error (500) when it is not.  An
\* update with a field that is not None never ends with the no-fields error.
C2_AllNoneRejected ==
  req.kind = "update" =>
    /\ AllNone(req.body) =>
         /\ calls = <<>>
         /\ IF Configured(req.hub) THEN NoFieldsError(resp) ELSE ConfigError(resp)
    /\ ~AllNone(req.body) => ~NoFieldsError(resp)

C2_Witness ==
  /\ req.op = "update_investment"
  /\ AllNone(req.body)
  /\ NoFieldsError(resp)
  /\ calls = <<>>

\* C3: a successful update returns as updated_fields exactly the store columns of
\* the request fields that were not None, without duplicates and equal to the keys
\* of the property set sent to the store, and returns the id of the path.
C3_UpdatedFields ==
  (req.kind = "update" /\ resp.t = "ok") =>
    /\ resp.body.updated_fields = PresentColumns(UpdateColumns(req.hub), req.body)
    /\ NoDuplicates(resp.body.updated_fields)
    /\ Len(calls) = 1
    /\ calls[1].op = "pages.update"
    /\ Keys(calls[1].payload.d) = resp.body.updated_fields
    /\ resp.body.id = req.id

C3_Witness ==
  /\ req.op = "update_quote"
  /\ resp.t = "ok"
  /\ req.body.author = Str("")
  /\ req.body.favorite = Bool(FALSE)
  /\ resp.body.updated_fields = <<"Autor", "Favorita">>

\* C4: a summarizer applied to a record that lacks any subset of its mapped columns
\* does not raise, yields None for each missing column and the stored value for
\* each column that is present.
C4_MissingColumnsAreNone ==
  fn = "summarize" =>
    /\ out.t = "summary"
    /\ \A f \in HubFields(arg.hub) :
         out.f[f] = IF HasKey(DictGet(arg.page.d, "properties", None).d, ColumnOf(arg.hub, f).k)
                    THEN ColumnOf(arg.hub, f).value
                    ELSE None

C4_Witness ==
  /\ fn = "summarize"
  /\ arg.hub = "investments"
  /\ out.t = "summary"
  /\ out.f.lucro_usd = None
  /\ out.f.tipo_ativo = None
  /\ out.f.quantity = Num(2)

DecoderNames ==
  {"_extract_title", "_extract_rich_text", "_extract_select_name",
   "_extract_multi_select_names", "_extract_date_start", "_extract_number",
   "_extract_checkbox"}

\* C5: no field decoder raises, whatever payload it is given.
C5_DecodersNeverRaise == fn \in DecoderNames => ~IsRaise(out)

\* C6: decoding the payload a create builder produced for a value returns that
\* value, for every field the builder wrote and the summary reads back.
C6_RoundTrip ==
  fn = "build_then_summarize" =>
    /\ out.t = "summary"
    /\ \A i \in 1..Len(CreateColumns(arg.hub)) :
         LET c == CreateColumns(arg.hub)[i]
         IN (c.field \in HubFields(arg.hub)
               /\ HasKey(BuildProperties(arg.hub, arg.body), c.column))
              => out.f[c.field] = arg.body[c.field]

\* the predicates the list parameters of a request select, in the code's order
SelectedPredicates(r) ==
  CASE r.op = "list_quotes" -> list_quotes_filters(r.body.author, r.body.favorite)
    [] r.op = "list_notes" -> list_notes_filters(r.body.favorite, r.body.category)
    [] r.op = "list_investments" ->
         list_investments_filters(r.body.asset, r.body.only_profitable)

\* C7: the quotes, notes and investments lists send no filter for zero selected
\* predicates, the bare predicate for one, an "and" node over all of them in order
\* for several, and never an "or" node; quotes with author "Rumi" and favorite
\* true sends And[Autor contains "Rumi", Favorita equals true].
C7_FilterComposition ==
  (req.op \in {"list_quotes", "list_notes", "list_investments"} /\ calls # <<>>) =>
    LET preds == SelectedPredicates(req)
        c == calls[1]
    IN /\ c.op = "databases.query"
       /\ Len(preds) = 0 => (~c.has_filter /\ c.payload = None)
       /\ Len(preds) = 1 => (c.has_filter /\ c.payload = preds[1])
       /\ Len(preds) > 1 => (c.has_filter /\ c.payload = Dict(<<KV("and", List(preds))>>))
       /\ c.has_filter => ~HasKey(c.payload.d, "or")
       /\ (req.op = "list_quotes" /\ req.body.author = Str("Rumi")
             /\ req.body.favorite = Bool(TRUE))
            => c.payload =
                 Dict(<<KV("and",
                           List(<<Predicate("Autor", "rich_text", "contains", Str("Rumi")),
                                  Predicate("Favorita", "checkbox", "equals", Bool(TRUE))>>))>>)

C7_Witness ==
  /\ req.op = "list_quotes"
  /\ req.body.author = Str("Rumi")
  /\ req.body.favorite = Bool(TRUE)
  /\ Len(calls) = 1
  /\ HasKey(calls[1].payload.d, "and")

\* C8: a failed store create or update ends the request with 400, a failed store
\* query with 500; the upstream message is in the detail and the failure is
\* answered as an HTTP error, never left unhandled.
C8_UpstreamFailureStatus ==
  (calls # <<>> /\ ~calls[1].result.ok) =>
    /\ resp.t = "http"
    /\ resp.detail.e = calls[1].result.e
    /\ resp.status = IF calls[1].op = "databases.query" THEN 500 ELSE 400
    /\ (calls[1].op = "databases.query") <=> (req.kind = "list")

C8_Witness ==
  /\ req.op = "list_books"
  /\ Len(calls) = 1
  /\ ~calls[1].result.ok
  /\ resp.status = 500
  /\ resp.detail.e = "timeout"

\* C9: on an optional hub whose collection identifier is unset or empty, every
\* create, list and update ends with 500 and the store client is not called.
C9_UnconfiguredIs500 ==
  (req.hub \in OptionalHubs /\ ~Truthy(dbid[req.hub])) =>
    /\ resp.t = "http"
    /\ resp.status = 500
    /\ calls = <<>>

C9_Witness ==
  /\ req.op = "list_movies"
  /\ dbid["movies"] = Str("")
  /\ resp.status = 500
  /\ calls = <<>>

RejectionTexts ==
  {"Nenhum campo para actualizar.", "É necessário indicar planned_date ou deadline_date.",
   "NOTION_MOVIES_DATABASE_ID não está definido.",
   "NOTION_BOOKS_DATABASE_ID não está definido.",
   "NOTION_QUOTES_DATABASE_ID não está definido.",
   "NOTION_NOTES_DATABASE_ID não está definido.",
   "NOTION_INVESTMENTS_DATABASE_ID não está definido."}

\* C10: a request calls the store client at most once: once when it succeeds, once
\* (no retry) when the call fails, not at all when a validation or configuration
\* check rejects it.
C10_AtMostOneStoreCall ==
  req # NoRequest =>
    /\ Len(calls) <= 1
    /\ resp.t = "ok" => (Len(calls) = 1 /\ calls[1].result.ok)
    /\ (\E i \in 1..Len(calls) : ~calls[i].result.ok) => Len(calls) = 1
    /\ (resp.t = "http" /\ resp.detail.text \in RejectionTexts) => calls = <<>>
    /\ (resp.t = "http" /\ resp.detail.text \notin RejectionTexts) => Len(calls) = 1

C10_Witness ==
  /\ req.op = "create_book"
  /\ Len(calls) = 1
  /\ ~calls[1].result.ok
  /\ resp.status = 400

\* the date the clock shows when the overdue query of C11 is made
ClockDate == "2024-06-01"

NotDone == Predicate("Estado", "select", "does_not_equal", Str("done"))

NotCancelled == Predicate("Estado", "select", "does_not_equal", Str("cancelled"))

\* C11: a tasks query with the overdue flag set queries the store with
\* And[deadline before today, state not-equals "done", state not-equals
\* "cancelled"], today being the clock date of the request ("2024-06-01").
C11_OverdueFilter ==
  (req.op = "query_notion_tasks" /\ req.body.overdue = Bool(TRUE)) =>
    /\ Len(calls) = 1
    /\ calls[1].op = "databases.query"
    /\ calls[1].payload =
         Dict(<<KV("and", List(<<Predicate("Deadline", "date", "before", Str(ClockDate)),
                                 NotDone, NotCancelled>>))>>)

\* C12: a tasks query for one date that selects both date columns queries the
\* store with an "or" of two date-equals predicates, one on the planned-date
\* column and one on the deadline column.
C12_BothColumnsOr ==
  (req.op = "query_notion_tasks" /\ req.body.date = Str("2024-06-01")
     /\ req.body.scope = Str("both")) =>
    /\ Len(calls) = 1
    /\ calls[1].op = "databases.query"
    /\ calls[1].payload =
         Dict(<<KV("or", List(<<Predicate("Data Planeada", "date", "equals", req.body.date),
                                Predicate("Deadline", "date", "equals", req.body.date)>>))>>)

\* C13: a tasks query with no filter criteria queries the store with the default
\* active-records filter And[state not-equals "done", state not-equals
\* "cancelled"] and, when the store answers, returns the task summaries.
C13_DefaultActiveFilter ==
  (req.op = "query_notion_tasks" /\ AllNone(req.body)) =>
    /\ Len(calls) = 1
    /\ calls[1].op = "databases.query"
    /\ calls[1].payload = Dict(<<KV("and", List(<<NotDone, NotCancelled>>))>>)
    /\ calls[1].result.ok => resp.t \in {"ok", "unhandled"}

\* a string of the form YYYY-MM-DD, among the date inputs of the model
IsPlainDate(v) == v.t = "str" /\ v.s \in {"2024-06-01"}

DateFields == {"planned_date", "deadline", "date"}

\* C15: a create or update whose date field (planned_date, deadline, note date)
\* carries a time of day, or is otherwise not a plain YYYY-MM-DD date, ends with an
\* error and sends nothing to the store.
C15_DateInputsRejected ==
  (req.kind \in {"create", "update"} /\ req.hub \in {"tasks", "notes"}) =>
    \A f \in DateFields \cap DOMAIN req.body :
      (req.body[f] # None /\ ~IsPlainDate(req.body[f])) => (resp.t # "ok" /\ calls = <<>>)

\* a span as the store renders it: a mapping whose plain text, if any, is a string
IsSpan(x) ==
  x.t = "dict" /\ (HasKey(x.d, "plain_text") => DictGet(x.d, "plain_text", None).t = "str")

\* a Title / RichText property: a mapping whose span list is absent or a list of spans
IsSpanProperty(prop, key) ==
  /\ prop.t = "dict"
  /\ HasKey(prop.d, key) =>
       /\ DictGet(prop.d, key, None).t = "list"
       /\ \A i \in 1..Len(DictGet(prop.d, key, None).l) : IsSpan(DictGet(prop.d, key, None).l[i])

SpansOf(prop, key) == IF HasKey(prop.d, key) THEN DictGet(prop.d, key, None).l ELSE <<>>

\* the plain text of the spans, in span order; a span without plain text gives ""
RECURSIVE PlainTextOf(_)
PlainTextOf(spans) ==
  IF spans = <<>> THEN ""
  ELSE (IF HasKey(Head(spans).d, "plain_text")
        THEN DictGet(Head(spans).d, "plain_text", None).s ELSE "")
         \o PlainTextOf(Tail(spans))

SpanKey == IF fn = "_extract_title" THEN "title" ELSE "rich_text"

\* C16: decoding a Title or RichText property gives None exactly when the span
\* list is absent or empty, and otherwise the concatenation in span order of the
\* spans' plain text ("" for a span without one), so a span list that is not
\* empty never decodes to None, even when the concatenation is "".
C16_SpanDecode ==
  (fn \in {"_extract_title", "_extract_rich_text"} /\ IsSpanProperty(arg, SpanKey)) =>
    /\ (out = None) <=> (SpansOf(arg, SpanKey) = <<>>)
    /\ SpansOf(arg, SpanKey) # <<>> => out = Str(PlainTextOf(SpansOf(arg, SpanKey)))

C16_Witness ==
  /\ fn = "_extract_title"
  /\ IsSpanProperty(arg, "title")
  /\ Len(SpansOf(arg, "title")) = 2
  /\ out = Str("")

\* C17: the tasks query resolves its two date parameters by priority, not by
\* error: with both given, the request is not rejected and the one predicate sent
\* is a date-equals on the planned-date column, whatever deadline_date is; the
\* deadline column is used only when planned_date is absent or empty.
C17_PlannedDateFirst ==
  req.op = "query_notion_tasks" =>
    /\ (Truthy(req.body.planned_date) /\ Truthy(req.body.deadline_date)) => Len(calls) = 1
    /\ calls # <<>> =>
         /\ Len(calls) = 1
         /\ calls[1].has_filter
         /\ calls[1].payload =
              IF Truthy(req.body.planned_date)
              THEN Predicate("Data Planeada", "date", "equals", req.body.planned_date)
              ELSE Predicate("Deadline", "date", "equals", req.body.deadline_date)

C17_Witness ==
  /\ req.op = "query_notion_tasks"
  /\ req.body.planned_date = Str("2024-06-01")
  /\ req.body.deadline_date = Str("2024-06-01T09:30:00")
  /\ Len(calls) = 1
  /\ calls[1].payload = Predicate("Data Planeada", "date", "equals", Str("2024-06-01"))
  /\ resp.t = "ok"

\* C18: an update on an optional hub checks the configuration first, then the
\* empty update, then calls the store: an unconfigured hub answers 500 whatever
\* the body (an all-None body included), a configured hub answers 400 to an
\* all-None body, only a body with a field on a configured hub reaches the store,
\* and neither rejection is preceded by a store call.
C18_UpdateCheckOrder ==
  (req.kind = "update" /\ req.hub \in OptionalHubs) =>
    /\ ~Truthy(dbid[req.hub]) => (ConfigError(resp) /\ ~NoFieldsError(resp))
    /\ (Truthy(dbid[req.hub]) /\ AllNone(req.body)) => NoFieldsError(resp)
    /\ (Truthy(dbid[req.hub]) /\ ~AllNone(req.body)) =>
         (Len(calls) = 1 /\ calls[1].op = "pages.update")
    /\ (ConfigError(resp) \/ NoFieldsError(resp)) => calls = <<>>

C18_Witness ==
  /\ req.op = "update_book"
  /\ AllNone(req.body)
  /\ dbid["books"] = None
  /\ resp.status = 500
  /\ calls = <<>>

\* the store created the record and the summary of the returned page fails
SummaryFails ==
  /\ Len(calls) = 1
  /\ calls[1].op = "pages.create"
  /\ calls[1].result.ok
  /\ IsRaise(Summarize(req.hub, calls[1].result.reply))

\* C20: when the store has created the record and summarizing the returned page
\* fails, create_investment answers 400 although the record is committed, while
\* create_movie, create_book, create_quote and create_note do not map the failure
\* to 400 (it leaves the handler uncaught); no create request follows its create
\* call with another store call that would undo it.
C20_ErrorAfterCommit ==
  req.kind = "create" =>
    /\ (req.hub = "investments" /\ SummaryFails) => (resp.t = "http" /\ resp.status = 400)
    /\ (req.hub \in {"movies", "books", "quotes", "notes"} /\ SummaryFails) =>
         (resp.t = "unhandled" /\ resp.status # 400)
    /\ \A i \in 1..Len(calls) : calls[i].op = "pages.create"
    /\ (calls # <<>> /\ calls[1].result.ok) => Len(calls) = 1

C20_Witness ==
  /\ req.op = "create_investment"
  /\ SummaryFails
  /\ resp.t = "http"
  /\ resp.status = 400

\* a field the create schema of the hub marks required is left out of the body
MissingRequired ==
  \E i \in 1..Len(CreateColumns(req.hub)) :
    /\ CreateColumns(req.hub)[i].required
    /\ req.body[CreateColumns(req.hub)[i].field] \in {Absent, None}

\* C14: a create request without a field required on create (the title field of
\* any hub; quantity or average_price_usd for investments) is answered with a
\* validation error and no store call; a request with every required field is
\* never answered with a validation error, whatever optional fields it lacks, and
\* the property set it sends to the store holds every required column.
C14_RequiredOnCreate ==
  req.kind = "create" =>
    /\ MissingRequired => (resp.t = "invalid" /\ resp.status = 422 /\ calls = <<>>)
    /\ ~MissingRequired =>
         /\ resp.t # "invalid"
         /\ Configured(req.hub) => Len(calls) = 1
         /\ \A c \in 1..Len(calls) : \A i \in 1..Len(CreateColumns(req.hub)) :
              CreateColumns(req.hub)[i].required =>
                HasKey(calls[c].payload.d, CreateColumns(req.hub)[i].column)

C14_Witness ==
  /\ req.op = "create_investment"
  /\ req.body.asset = Str("Rumi")
  /\ req.body.quantity = Absent
  /\ resp.status = 422
  /\ calls = <<>>

FavoriteColumn ==
  CASE req.hub = "books" -> "Favorito"
    [] req.hub = "quotes" -> "Favorita"
    [] req.hub = "notes" -> "Favorito"

\* C19: a movie created without watched still writes the checkbox column
\* "Já Vi", with false; the column is missing from the created property set only
\* when watched is null.  A book, quote or note created without favorite does not
\* write its favorite column.
C19_WatchedDefaultsFalse ==
  (req.kind = "create" /\ calls # <<>>) =>
    /\ req.hub = "movies" =>
         /\ req.body.watched = Absent =>
              DictGet(calls[1].payload.d, "Já Vi", None) = CheckboxProp(Bool(FALSE))
         /\ ~HasKey(calls[1].payload.d, "Já Vi") <=> req.body.watched = None
    /\ (req.hub \in {"books", "quotes", "notes"} /\ req.body.favorite = Absent) =>
         ~HasKey(calls[1].payload.d, FavoriteColumn)

C19_Witness ==
  /\ req.op = "create_movie"
  /\ req.body.watched = Absent
  /\ Len(calls) = 1
  /\ DictGet(calls[1].payload.d, "Já Vi", None) = CheckboxProp(Bool(FALSE))

\* the text parameter of a list request and the column it filters, if it has one
HasTextParam == req.hub \in {"quotes", "notes", "investments"}

TextParam ==
  CASE req.hub = "quotes" -> req.body.author
    [] req.hub = "notes" -> req.body.category
    [] req.hub = "investments" -> req.body.asset

TextColumn ==
  CASE req.hub = "quotes" -> "Autor"
    [] req.hub = "notes" -> "Categoria"
    [] req.hub = "investments" -> "Ativo"

\* the boolean parameter of a list request and the column it filters
BoolParam ==
  CASE req.hub = "movies" -> req.body.watched
    [] req.hub = "books" -> req.body.read
    [] req.hub \in {"quotes", "notes"} -> req.body.favorite
    [] req.hub = "investments" -> req.body.only_profitable

BoolColumn ==
  CASE req.hub = "movies" -> "Já Vi"
    [] req.hub = "books" -> "Estado de leitura"
    [] req.hub = "quotes" -> "Favorita"
    [] req.hub = "notes" -> "Favorito"
    [] req.hub = "investments" -> "Lucro (USD)"

\* the predicates of the filter a query call carries
PredicatesSent(c) ==
  IF ~c.has_filter THEN <<>>
  ELSE IF HasKey(c.payload.d, "and") THEN DictGet(c.payload.d, "and", None).l
  ELSE <<c.payload>>

\* how many of the predicates sent are on the column
CountOn(c, column) ==
  Cardinality({i \in 1..Len(PredicatesSent(c)) :
                 DictGet(PredicatesSent(c)[i].d, "property", None) = Str(column)})

\* a number predicate of the store applied to the number n
NumberMatches(p, n) ==
  LET cond == DictGet(p.d, "number", None).d[1]
  IN CASE cond.k = "greater_than" -> n > cond.v.n
       [] cond.k = "less_than" -> n < cond.v.n
       [] cond.k = "equals" -> n = cond.v.n

\* C21: in a list request that reaches the store, a text parameter given as ""
\* contributes no predicate, as an absent one does, while a boolean parameter
\* given as false contributes its predicate and the query is filtered; for
\* investments, only_profitable true and false send profit > 0 and profit < 0, so
\* that a record with profit 0 matches neither.
C21_EmptyTextVsFalse ==
  (req.kind = "list" /\ req.hub \in OptionalHubs /\ calls # <<>>) =>
    /\ HasTextParam =>
         /\ TextParam \in {None, Str("")} => CountOn(calls[1], TextColumn) = 0
         /\ (TextParam \in {None, Str("")} /\ BoolParam = None) =>
              (~calls[1].has_filter /\ calls[1].payload = None)
    /\ BoolParam = Bool(FALSE) => (calls[1].has_filter /\ CountOn(calls[1], BoolColumn) = 1)
    /\ BoolParam = None => CountOn(calls[1], BoolColumn) = 0
    /\ (req.hub = "investments" /\ BoolParam # None) =>
         \E i \in 1..Len(PredicatesSent(calls[1])) :
           /\ PredicatesSent(calls[1])[i] =
                Predicate("Lucro (USD)", "number",
                          IF BoolParam = Bool(TRUE) THEN "greater_than" ELSE "less_than",
                          Num(0))
           /\ ~NumberMatches(PredicatesSent(calls[1])[i], 0)
           /\ NumberMatches(PredicatesSent(calls[1])[i], IF BoolParam = Bool(TRUE) THEN 1 ELSE -1)

C21_Witness ==
  /\ req.op = "list_investments"
  /\ req.body.asset = Str("")
  /\ req.body.only_profitable = Bool(FALSE)
  /\ Len(calls) = 1
  /\ calls[1].has_filter
  /\ calls[1].payload = Predicate("Lucro (USD)", "number", "less_than", Num(0))

====
